---- MODULE Spec2Model ----
(***************************************************************************)
(* Model of the pagination traversal engine of the HTML content extractor  *)
(* (src/extract_html_content.py) together with the job status record and   *)
(* the cancel endpoint of the API (src/api.py).                            *)
(*                                                                         *)
(* One traversal is modelled from the call of extract_all_pages_recursive  *)
(* made by process_extraction: the start page is classified, then either   *)
(* the URL controller (queue of pagination links) or the control-driven    *)
(* controller (extract_with_js_pagination, clicking a next control on one  *)
(* render session) runs until it returns or raises.  The web site, the     *)
(* page loader and the render session are the environment: every load,     *)
(* snapshot, extraction and click draws its outcome from a small set.      *)
(* The Redis job record is shared with the cancel endpoint, which runs     *)
(* concurrently with the traversal thread; each Redis get/setex is one     *)
(* atomic step.                                                            *)
(***************************************************************************)
EXTENDS Integers, Sequences, FiniteSets, TLC

VARIABLES
    session,                  \* ExtractionSession: use_js, has_pagination, max_pages, has_job
    start_page,               \* the paging markup of the start page as the site serves
                              \* it when the job starts; Unbound once a controller runs
    pc,                       \* position of the traversal thread
    mode,                     \* "unknown" | "url" | "js" (controller dispatched to)
    all_text_parts,           \* ordered PageResult list
    page_count,               \* page counter of either controller
    iteration,                \* URL controller: loop iterations started
    visited_urls,             \* URL controller: visited set
    urls_to_visit,            \* URL controller: FIFO queue
    url,                      \* URL controller: URL dequeued in this iteration
    pagination_links,         \* URL controller: links found on the page of this
                              \* iteration (empty until they are looked for)
    html,                     \* URL controller: result of the last load (NoHtml on
                              \* failure); Unbound once the code no longer reads it
    consecutive_no_next,      \* JS controller: consecutive activation errors
    previous_content_hash,    \* JS controller: fingerprint of the previous page
    consecutive_same_content, \* JS controller: consecutive unchanged fingerprints
    next_button,              \* JS controller: the control located in this iteration
                              \* ("none" | "next" | "numbered")
    clicked,                  \* JS controller: did a click strategy succeed
    outcome,                  \* "running" | "returned" | "raised"
    returned,                 \* the list handed to the caller (when outcome = "returned")
    reason,                   \* which exit of the loop was taken (history)
    returned_reason,          \* the termination reason in the returned value
    job_record,               \* Redis value of job:{job_id}
    cancellation_flags,       \* api.cancellation_flags[job_id]
    data,                     \* update_redis_progress: the record read by its get
                              \* (NoRecord outside the call)
    cancel_pc,                \* position of the DELETE handler
    cancel_data,              \* cancel_extraction: the record read by its get
                              \* (NoRecord outside the call)
    extraction_doc,           \* the document of this job in db.extractions
                              \* (NoRecord until it is inserted)
    delayed,                  \* history: time.sleep(2) of the URL controller has run
                              \* since its last page load
    get_response,             \* GET /extract/result/{job_id}: the response being
                              \* sent (NoResponse when no request is being answered)
    sink_up,                  \* does Redis answer (FALSE: every get and setex raises)
    extract_call,             \* a call of extract_text_with_inline_links on its own:
                              \* its arguments (NoCall when there is none)
    extract_result,           \* what that call returned or that it raised
                              \* (NoResult before it ends)
    open_sessions,            \* history: browsers launched by this job and not closed
    fetched                   \* history: loads of the start page by the classifier, and
                              \* loads of each URL by the dispatched controller

vars == <<session, start_page, pc, mode, all_text_parts, page_count, iteration, visited_urls,
          urls_to_visit, url, pagination_links, html, consecutive_no_next, previous_content_hash,
          consecutive_same_content, next_button, clicked, outcome, returned, reason, returned_reason,
          job_record, cancellation_flags, data, cancel_pc, cancel_data,
          extraction_doc, delayed, get_response, sink_up, extract_call, extract_result,
          open_sessions, fetched>>

urlVars == <<iteration, visited_urls, urls_to_visit, url, pagination_links>>
jsVars  == <<consecutive_no_next, previous_content_hash, consecutive_same_content, next_button,
            clicked>>
jobVars == <<job_record, cancellation_flags, data, cancel_pc, cancel_data>>
endVars == <<outcome, returned, reason, returned_reason>>

(***************************************************************************)
(* Bounds of the model.                                                    *)
(***************************************************************************)
NumUrls == 4         \* URLs of the site
NumPrefixes == 2     \* distinct 2000-character prefixes of page texts
MaxPagesBound == 2   \* largest max_pages a request carries

\* a page shows at most the URLs of the other pages as pagination links
MaxLinks == NumUrls - 2
\* iterations of the control-driven loop that are explored: one more than the
\* largest cap, so that a traversal without cap outruns every capped one
MaxSteps == MaxPagesBound + 1

(***************************************************************************)
(* Program constants.                                                      *)
(***************************************************************************)
SafetyCeiling == 1000
MaxActivationFailures == 3
StableThreshold == 2

(***************************************************************************)
(* URLs are the absolute URL strings 1..NumUrls of one host.  Every URL    *)
(* has its own path and query, except the last one, which is the start URL *)
(* with a fragment: a different string that urlparse(...).path/.query      *)
(* cannot tell apart from the start URL.                                   *)
(***************************************************************************)
Urls == 1..NumUrls
StartUrl == 1
PathQuery(u) == IF u = NumUrls THEN StartUrl ELSE u

(***************************************************************************)
(* Page texts.  prefix is text[:2000] (0: the empty text); long says that  *)
(* the text has more than 2000 characters, i.e. goes on after its prefix.  *)
(***************************************************************************)
EmptyText == [prefix |-> 0, long |-> FALSE]
Texts == {EmptyText} \cup [prefix : 1..NumPrefixes, long : BOOLEAN]

\* html = None after a failed load
NoHtml == [none |-> TRUE]
\* html holds nothing the code still reads (before the first load, and from
\* the end of one iteration to the load of the next)
Unbound == [unbound |-> TRUE]
\* previous_content_hash = None; hashes of non-empty texts are >= 1
NoHash == 0

RECURSIVE SeqsUpTo(_, _)
SeqsUpTo(S, n) ==
    IF n = 0 THEN {<<>>}
    ELSE LET shorter == SeqsUpTo(S, n - 1)
         IN shorter \cup {Append(s, x) : s \in shorter, x \in S}

Range(s) == {s[i] : i \in 1..Len(s)}
NoDup(s) == \A i, j \in 1..Len(s) : s[i] = s[j] => i = j

\* find_pagination_links returns list(set(...)): distinct URLs in some order
LinkLists == {s \in SeqsUpTo(Urls, MaxLinks) : NoDup(s)}

\* what a load of a URL-mode page yields, as far as the controller reads it:
\* the text that extraction finds in it (empty or not) and the links it
\* finds (none: the pages of these sites have no anchors besides their
\* pagination links)
UrlTexts == {t \in Texts : t.prefix <= 1 /\ ~t.long}
UrlPages == [text : UrlTexts, links : {<<>>}]

\* the paging markup in a snapshot of the render session:
\*   indicator     the "X of Y" text: absent, X < Y, X >= Y
\*   indicator_in  where it stands: in the text of the a[aria-current=page]
\*                 element, or only in the text of a pagination container
\*   next          the first control the patterns of find_next_page_button
\*                 match: none; one that is enabled; disabled_own, one whose
\*                 own disabled="disabled" attribute or disabled class makes
\*                 find_next_page_button skip it; disabled_parent, one that
\*                 find_next_page_button returns and the loop then reports
\*                 disabled (class of its parent, or a bare disabled attribute)
\*   next_kind     that control is an explicit next control (next class,
\*                 aria-label) or a vendor one (data-action, FacetWP, data-page)
\*   next_wraps    its data-page is not beyond the one of FacetWP's active page
\*   numbered      numbered links in a pagination container: none; the link
\*                 current+1 after a marked current page; links above 1 with
\*                 no current page marked by a number
\*   facet_last    FacetWP's active page is its last page
Snapshots ==
    {p \in [indicator : {"none", "more", "last"},
            indicator_in : {"current_link", "container_text"},
            next : {"none", "enabled", "disabled_own", "disabled_parent"},
            next_kind : {"explicit", "vendor"},
            next_wraps : BOOLEAN,
            numbered : {"none", "next", "unmarked"},
            facet_last : BOOLEAN] :
        /\ p.indicator = "none" => p.indicator_in = "current_link"
        /\ p.next = "none" => p.next_kind = "explicit"
        /\ p.next_wraps => p.next # "none" /\ p.next_kind = "vendor"}

\* the snapshots a traversal is run against: the indicator in the current
\* link, an explicit next control, a marked current page
Soups ==
    {p \in Snapshots :
        /\ p.indicator_in = "current_link"
        /\ p.next \in {"none", "enabled", "disabled_parent"}
        /\ p.next_kind = "explicit"
        /\ p.numbered \in {"none", "next"}}

\* the callers pass max_pages = 1 unless has_pagination is set
Sessions == {s \in [use_js : BOOLEAN, has_pagination : BOOLEAN,
                    max_pages : 1..MaxPagesBound, has_job : BOOLEAN] :
                s.has_pagination \/ s.max_pages = 1}


\* the paging markup of the start page, as the classifier reads it:
\*   widget: a div with a FacetWP class; else elements with a data-page
\*     attribute, split by what the classifier does not look at: whether they
\*     carry no href, or an href that resolves to a URL of its own
\*   placeholder_links: a pagination container holds page-number or next/prev
\*     links with href "#" or "javascript:void(0)"
\*   next_href: the href of the control that find_next_page_button returns:
\*     no control; no href, "" or "#"; an href that resolves to the path and
\*     query of the start URL; an href that resolves to another path or query
StartPages == [widget : {"none", "facetwp", "data_page_no_href", "data_page_href"},
               placeholder_links : BOOLEAN,
               next_href : {"none", "placeholder", "same", "different"}]

\* no call of extract_text_with_inline_links on its own, no result of it yet
NoCall == [none |-> TRUE]
NoResult == [none |-> TRUE]

\* no GET /extract/result request is being answered
NoResponse == [none |-> TRUE]

\* redis_client.get returns None: no record under the job key
NoRecord == [none |-> TRUE]
InitialRecord == [status |-> "processing", pages_extracted |-> 0]

(***************************************************************************)
(* Helpers translated from the source.                                     *)
(***************************************************************************)

\* variant: the requested cap is ignored, only the safety ceiling applies
MaxPagesLimitCeilingOnly(has_pagination, max_pages) == SafetyCeiling

\* max_pages_limit / max_iterations
MaxPagesLimit(has_pagination, max_pages) ==
    IF has_pagination THEN max_pages ELSE SafetyCeiling

max_iterations == MaxPagesLimit(session.has_pagination, session.max_pages)

\* variant: the status is compared with a misspelt word
check_cancelledMisspelt(job_data) ==
    IF job_data = NoRecord THEN FALSE ELSE job_data.status = "canceled"

\* check_cancelled(): the record's status, False when there is no record
check_cancelled(job_data) ==
    IF job_data = NoRecord THEN FALSE ELSE job_data.status = "cancelled"

\* variant: the answer is taken from the record even when the get raises
CancellationQueryUnguarded == check_cancelled(job_record)

\* redis_client.get(f"job:{job_id}") inside check_cancelled: the record, or
\* the error the bare except turns into False
CancellationQuery == IF sink_up THEN check_cancelled(job_record) ELSE FALSE

\* `cancellation_check and cancellation_check()`
CancellationObserved == session.has_job /\ CancellationQuery

\* update_redis_status: setex of the whole record, its error only printed
update_redis_status(status_data) == IF sink_up THEN status_data ELSE job_record

\* the classifier of extract_all_pages_recursive: TRUE = control-driven
IsJsPagination(page) ==
    \/ page.widget = "facetwp"
    \/ page.widget \in {"data_page_no_href", "data_page_href"} /\ page.next_href # "none"
    \/ page.placeholder_links
    \/ page.next_href \in {"placeholder", "same"}

\* variant: only the queue is tested
UrlLoopConditionQueueOnly(queue, it, limit) == queue # <<>>

\* the while condition of the URL controller
UrlLoopCondition(queue, it, limit) == queue # <<>> /\ it < limit

\* variant: the loop still runs when the counter equals the limit
JsLoopConditionInclusive(count, limit) == count <= limit

\* the while condition of the control-driven controller
JsLoopCondition(count, limit) == count < limit

\* links whose path or query differs from the page that shows them
RECURSIVE ValidPaginationLinks(_, _)
ValidPaginationLinks(links, current) ==
    IF links = <<>> THEN <<>>
    ELSE LET rest == ValidPaginationLinks(Tail(links), current)
         IN IF PathQuery(Head(links)) # PathQuery(current) THEN <<Head(links)>> \o rest ELSE rest

\* variant: only the visited set is consulted, not the queue
ShouldEnqueueIgnoringQueue(pag_url, visited, queue) ==
    pag_url \notin visited

\* variant: only the queue is consulted, not the visited set
ShouldEnqueueIgnoringVisited(pag_url, visited, queue) ==
    pag_url \notin Range(queue)

\* `if pag_url not in visited_urls and pag_url not in urls_to_visit`
ShouldEnqueue(pag_url, visited, queue) ==
    pag_url \notin visited /\ pag_url \notin Range(queue)

\* the loop that appends the new pagination links to the queue
RECURSIVE EnqueueLinks(_, _, _)
EnqueueLinks(queue, visited, links) ==
    IF links = <<>> THEN queue
    ELSE EnqueueLinks(IF ShouldEnqueue(Head(links), visited, queue)
                      THEN Append(queue, Head(links)) ELSE queue,
                      visited, Tail(links))

\* variant: a cancelled traversal hands back an empty list
ReturnOnCancelEmpty(parts) == <<>>

\* the list the controller hands back when it observes cancellation
ReturnOnCancel(parts) == parts

\* variant: a failed load ends the loop (`break`)
AfterLoadFailureBreak == "url_finish"

\* where the URL loop goes when a load fails: `continue`
AfterLoadFailure == "url_loop"

\* text_to_hash: the first 2000 characters; the hash is taken as injective
ContentHash(text) == text.prefix

\* the termination reason that `return all_text_parts` carries: the list is
\* returned alone, the exit taken is only printed
ReasonInReturnValue(why) == "none"

(***************************************************************************)
(* Aggregation of the returned pages by process_extraction.  A text is the *)
(* sequence of its characters: its first 2000 characters are written as    *)
(* one character (the prefix), whatever follows them as one more           *)
(* (MoreText).                                                             *)
(***************************************************************************)
Newline == 0 - 1
MoreText == 0
Chars(text) ==
    IF text.prefix = 0 THEN <<>>
    ELSE IF text.long THEN <<text.prefix, MoreText>> ELSE <<text.prefix>>

\* the links that the pages of the model's sites carry besides pagination
LinkUrls == {"https://a.test/more", "https://a.test/other"}
LinkTexts == {"More", "Details"}
Links == [url : LinkUrls, text : LinkTexts]

\* ExtractRequest.include_links, True unless the request says otherwise
IncludeLinks(request) ==
    IF "include_links" \in DOMAIN request THEN request.include_links ELSE TRUE

\* page_data.get('links', [])
PageLinks(page_data) ==
    IF "links" \in DOMAIN page_data THEN page_data.links ELSE <<>>

\* the loop over the result: texts of the pages that have one, in order
RECURSIVE combined_text_parts(_)
combined_text_parts(result) ==
    IF result = <<>> THEN <<>>
    ELSE (IF Chars(Head(result).text) # <<>> THEN <<Chars(Head(result).text)>> ELSE <<>>)
         \o combined_text_parts(Tail(result))

\* the loop over the result: links of all pages, in order
RECURSIVE all_links(_, _)
all_links(result, include_links) ==
    IF result = <<>> THEN <<>>
    ELSE (IF include_links /\ PageLinks(Head(result)) # <<>>
          THEN PageLinks(Head(result)) ELSE <<>>)
         \o all_links(Tail(result), include_links)

\* variant: pages are joined by a single line break
PageSeparatorSingle == <<Newline>>

\* the separator of '\n\n'.join
PageSeparator == <<Newline, Newline>>

\* sep.join(parts)
RECURSIVE Join(_, _)
Join(parts, sep) ==
    IF parts = <<>> THEN <<>>
    ELSE IF Len(parts) = 1 THEN Head(parts)
    ELSE Head(parts) \o sep \o Join(Tail(parts), sep)

combined_content(result) == Join(combined_text_parts(result), PageSeparator)

\* link_str = f"{text} — {url}": text and url, taken as a pair
LinkStr(link) == <<link.text, link.url>>

RECURSIVE DeduplicateFrom(_, _)
DeduplicateFrom(links, seen) ==
    IF links = <<>> THEN <<>>
    ELSE IF LinkStr(Head(links)) \in seen
         THEN DeduplicateFrom(Tail(links), seen)
         ELSE <<Head(links)>>
              \o DeduplicateFrom(Tail(links), seen \cup {LinkStr(Head(links))})

\* deduplicate_links: the first entry of every link_str, in order
deduplicate_links(links) == DeduplicateFrom(links, {})

\* extraction_doc, without the fields copied from the request and the dates
ExtractionDoc(result, include_links) ==
    LET content == combined_content(result)
        unique_links == deduplicate_links(all_links(result, include_links))
    IN [content |-> content,
        links |-> unique_links,
        pages_extracted |-> Len(result),
        total_characters |-> Len(content),
        total_links |-> Len(unique_links)]

\* variant: an empty result is not told apart from a result with pages
NoContentNever(result) == FALSE

\* `not result or not isinstance(result, list) or len(result) == 0`
NoContent(result) == result = <<>>

\* the status records that process_extraction writes when the traversal is over
CancelledRecord == [status |-> "cancelled"]
FailedRecord(error_msg) == [status |-> "failed", error |-> error_msg]
CompletedRecord(doc) ==
    [status |-> "completed", pages_extracted |-> doc.pages_extracted,
     total_characters |-> doc.total_characters, total_links |-> doc.total_links]

\* variant: the browser of a page load is left open
SessionsAfterLoadLeaked(n) == n + 1

\* load_page_with_playwright launches a browser and closes it in `finally`
\* before it returns; load_page_with_requests launches none
SessionsAfterLoad(n) == n

\* extract_with_js_pagination: `finally: await browser.close()` runs when
\* the function is left, by return or by an error
SessionsAfter(n, position) == IF position = "done" THEN n - 1 ELSE n

\* the traversal leaves its loop and returns all_text_parts
Return(why, parts) ==
    /\ outcome' = "returned"
    /\ returned' = parts
    /\ returned_reason' = ReasonInReturnValue(why)
    /\ reason' = why
    /\ pc' = "done"

\* an error leaves the controller uncaught: the caller gets no list
Raise(why) ==
    /\ outcome' = "raised"
    /\ returned' = <<>>
    /\ returned_reason' = "none"
    /\ reason' = why
    /\ pc' = "done"

Init ==
    /\ session \in Sessions
    /\ start_page \in StartPages
    /\ pc = "classify"
    /\ mode = "unknown"
    /\ all_text_parts = <<>>
    /\ page_count = 0
    /\ iteration = 0
    /\ visited_urls = {}
    /\ urls_to_visit = <<StartUrl>>
    /\ url = StartUrl
    /\ pagination_links = <<>>
    /\ html = Unbound
    /\ consecutive_no_next = 0
    /\ previous_content_hash = NoHash
    /\ consecutive_same_content = 0
    /\ next_button = "none"
    /\ clicked = FALSE
    /\ outcome = "running"
    /\ returned = <<>>
    /\ reason = "none"
    /\ returned_reason = "none"
    /\ job_record = IF session.has_job THEN InitialRecord ELSE NoRecord
    /\ cancellation_flags = FALSE
    /\ data = NoRecord
    /\ cancel_pc = "idle"
    /\ cancel_data = NoRecord
    /\ extraction_doc = NoRecord
    /\ delayed = FALSE
    /\ open_sessions = 0
    /\ get_response = NoResponse
    /\ sink_up = TRUE
    /\ extract_call = NoCall
    /\ extract_result = NoResult
    /\ fetched = [classifier |-> 0, controller |-> [u \in Urls |-> 0]]

(***************************************************************************)
(* Orchestrator: extract_all_pages_recursive up to the dispatch.           *)
(***************************************************************************)

\* with use_js the start page is loaded and classified; a failed load or
\* use_js = False goes to URL traversal
Classify ==
    /\ pc = "classify"
    /\ \/ /\ session.use_js
          /\ fetched' = [fetched EXCEPT !.classifier = @ + 1]
          /\ open_sessions' = SessionsAfterLoad(open_sessions)
          /\ \/ IF IsJsPagination(start_page)
                THEN mode' = "js" /\ pc' = "js_goto"
                ELSE mode' = "url" /\ pc' = "url_loop"
             \/ mode' = "url" /\ pc' = "url_loop"
       \/ /\ ~session.use_js
          /\ fetched' = fetched
          /\ open_sessions' = open_sessions
          /\ mode' = "url" /\ pc' = "url_loop"
    /\ UNCHANGED <<delayed, get_response, sink_up, extract_call, extract_result, extraction_doc, session, start_page, all_text_parts, page_count, html>>
    /\ UNCHANGED <<urlVars, jsVars, jobVars, endVars>>

(***************************************************************************)
(* URL-traversal controller.                                               *)
(***************************************************************************)

\* top of the while loop down to the point where the page is loaded
UrlLoopTop ==
    /\ pc = "url_loop"
    /\ IF ~UrlLoopCondition(urls_to_visit, iteration, max_iterations)
       THEN /\ Return(IF urls_to_visit = <<>> THEN "queue_empty"
                      ELSE IF session.has_pagination THEN "limit_reached"
                      ELSE "safety_ceiling", all_text_parts)
            /\ UNCHANGED <<page_count, html, urlVars>>
       ELSE IF CancellationObserved
       THEN /\ Return("cancelled", ReturnOnCancel(all_text_parts))
            /\ UNCHANGED <<page_count, html, urlVars>>
       ELSE /\ iteration' = iteration + 1
            /\ html' = Unbound
            /\ pagination_links' = <<>>
            /\ url' = Head(urls_to_visit)
            /\ urls_to_visit' = Tail(urls_to_visit)
            /\ IF Head(urls_to_visit) \in visited_urls
               THEN /\ pc' = "url_loop"
                    /\ UNCHANGED <<visited_urls, page_count, endVars>>
               ELSE /\ visited_urls' = visited_urls \cup {Head(urls_to_visit)}
                    /\ page_count' = page_count + 1
                    /\ IF session.has_pagination /\ page_count + 1 > max_iterations
                       THEN Return("limit_reached", all_text_parts)
                       ELSE pc' = "url_load" /\ UNCHANGED endVars
    /\ start_page' = Unbound
    /\ UNCHANGED <<open_sessions, delayed, get_response, sink_up, extract_call, extract_result, extraction_doc, session, mode, all_text_parts, fetched>>
    /\ UNCHANGED <<jsVars, jobVars>>

\* load_page_with_playwright / load_page_with_requests: html or None; the
\* site and the network decide which of `results` it is
UrlLoadOf(results) ==
    /\ pc = "url_load"
    /\ html' \in results
    /\ fetched' = [fetched EXCEPT !.controller[url] = @ + 1]
    /\ delayed' = FALSE
    /\ open_sessions' = SessionsAfterLoad(open_sessions)
    /\ pc' = "url_extract"
    /\ UNCHANGED <<get_response, sink_up, extract_call, extract_result, extraction_doc, session, start_page, mode, all_text_parts, page_count>>
    /\ UNCHANGED <<urlVars, jsVars, jobVars, endVars>>

UrlLoad == UrlLoadOf(UrlPages \cup {NoHtml})

\* `if not html: continue`, extraction, append of the PageResult
UrlExtract ==
    /\ pc = "url_extract"
    /\ IF html = NoHtml
       THEN /\ pc' = AfterLoadFailure
            /\ UNCHANGED <<all_text_parts, html, endVars>>
       ELSE \/ /\ Raise("extraction_error")
               /\ UNCHANGED <<all_text_parts, html>>
            \/ IF html.text # EmptyText
               THEN /\ all_text_parts' = Append(all_text_parts,
                          [url |-> url, page_number |-> page_count,
                           text |-> html.text, links |-> html.links])
                    /\ pc' = IF session.has_job THEN "progress_read" ELSE "url_enqueue"
                    /\ UNCHANGED <<html, endVars>>
               ELSE /\ pc' = "url_loop"
                    /\ UNCHANGED <<all_text_parts, html, endVars>>
    /\ UNCHANGED <<open_sessions, delayed, get_response, sink_up, extract_call, extract_result, extraction_doc, session, start_page, mode, page_count, fetched>>
    /\ UNCHANGED <<urlVars, jsVars, jobVars>>

\* `if urls_to_visit: time.sleep(2)`, the last statement of the branch that
\* appended a PageResult: TRUE when the delay runs
PolitenessDelay(queue) == queue # <<>>

\* find_pagination_links (a list made from a set: distinct URLs in some
\* order, one of `found`), the same-page filter and the enqueue loop
UrlEnqueueFrom(found) ==
    /\ pc = "url_enqueue"
    /\ \/ \E links \in found :
            /\ pagination_links' = links
            /\ urls_to_visit' = EnqueueLinks(urls_to_visit, visited_urls,
                                             ValidPaginationLinks(links, url))
            /\ delayed' = PolitenessDelay(urls_to_visit')
            /\ pc' = "url_loop"
            /\ UNCHANGED endVars
       \/ /\ Raise("extraction_error")
          /\ UNCHANGED <<urls_to_visit, pagination_links, delayed>>
    /\ UNCHANGED <<open_sessions, get_response, sink_up, extract_call, extract_result, extraction_doc, session, start_page, mode, all_text_parts, page_count, html, fetched>>
    /\ UNCHANGED <<iteration, visited_urls, url>>
    /\ UNCHANGED <<jsVars, jobVars>>

UrlEnqueue == UrlEnqueueFrom(LinkLists)

(***************************************************************************)
(* JobProgressSink: update_redis_progress is a get followed by a setex.    *)
(***************************************************************************)

ProgressRead ==
    /\ pc = "progress_read"
    /\ data' = IF sink_up THEN job_record ELSE NoRecord
    /\ pc' = "progress_write"
    /\ UNCHANGED <<open_sessions, delayed, get_response, sink_up, extract_call, extract_result, extraction_doc, session, start_page, mode, all_text_parts, page_count, html, fetched>>
    /\ UNCHANGED <<urlVars, jsVars, endVars>>
    /\ UNCHANGED <<job_record, cancellation_flags, cancel_pc, cancel_data>>

ProgressWrite ==
    /\ pc = "progress_write"
    /\ job_record' = IF data = NoRecord \/ ~sink_up THEN job_record
                     ELSE [data EXCEPT !.pages_extracted = page_count]
    /\ pc' = IF mode = "url" THEN "url_enqueue" ELSE "js_locate"
    /\ UNCHANGED <<open_sessions, delayed, get_response, sink_up, extract_call, extract_result, extraction_doc, session, start_page, mode, all_text_parts, page_count, html, fetched>>
    /\ UNCHANGED <<urlVars, jsVars, endVars>>
    /\ data' = NoRecord
    /\ UNCHANGED <<cancellation_flags, cancel_pc, cancel_data>>

(***************************************************************************)
(* DELETE /extract/{job_id}: cancel_extraction, on the server's event loop *)
(* while the traversal runs in an executor thread.                         *)
(***************************************************************************)

\* variant: every status can be cancelled
CanCancelAnyStatus(status_data) == TRUE

\* `data.get("status") not in ["processing", "pending"]` refuses the request
CanCancel(status_data) == status_data.status \in {"processing", "pending"}

\* get, the 404/400 checks, and the in-process flag
CancelRead ==
    /\ cancel_pc = "idle"
    /\ session.has_job
    /\ sink_up
    /\ cancel_data' = job_record
    /\ IF job_record = NoRecord
       THEN cancellation_flags' = cancellation_flags /\ cancel_pc' = "not_found"
       ELSE IF CanCancel(job_record)
       THEN cancellation_flags' = TRUE /\ cancel_pc' = "write"
       ELSE cancellation_flags' = cancellation_flags /\ cancel_pc' = "rejected"
    /\ UNCHANGED <<open_sessions, delayed, get_response, sink_up, extract_call, extract_result, extraction_doc, session, start_page, pc, mode, all_text_parts, page_count, html, fetched>>
    /\ UNCHANGED <<urlVars, jsVars, endVars, job_record, data>>

\* update_redis_status(job_id, {**data, "status": "cancelled", ...})
CancelWrite ==
    /\ cancel_pc = "write"
    /\ job_record' = update_redis_status([cancel_data EXCEPT !.status = "cancelled"])
    /\ cancel_pc' = "accepted"
    /\ cancel_data' = NoRecord
    /\ UNCHANGED <<open_sessions, delayed, get_response, sink_up, extract_call, extract_result, extraction_doc, session, start_page, pc, mode, all_text_parts, page_count, html, fetched>>
    /\ UNCHANGED <<urlVars, jsVars, endVars, cancellation_flags, data>>


(***************************************************************************)
(* Control-driven controller: extract_with_js_pagination.                  *)
(***************************************************************************)

\* page.goto of the start URL on the controller's own render session; it is
\* inside try/finally only, so an error leaves the function
JsGoto ==
    /\ pc = "js_goto"
    /\ fetched' = [fetched EXCEPT !.controller[StartUrl] = @ + 1]
    /\ \/ pc' = "js_loop" /\ UNCHANGED endVars
       \/ Raise("initial_load_error")
    /\ start_page' = Unbound
    /\ open_sessions' = SessionsAfter(open_sessions + 1, pc')
    /\ UNCHANGED <<delayed, get_response, sink_up, extract_call, extract_result, extraction_doc, session, mode, all_text_parts, page_count, html>>
    /\ UNCHANGED <<urlVars, jsVars, jobVars>>

\* top of the while loop: cap, cancellation check, page counter; the model
\* follows the loop for at most `steps` iterations
JsLoopTopWithin(steps) ==
    /\ pc = "js_loop"
    /\ IF ~JsLoopCondition(page_count, max_iterations)
       THEN /\ Return(IF session.has_pagination THEN "limit_reached"
                      ELSE "safety_ceiling", all_text_parts)
            /\ UNCHANGED page_count
       ELSE IF CancellationObserved
       THEN /\ Return("cancelled", ReturnOnCancel(all_text_parts))
            /\ UNCHANGED page_count
       ELSE /\ page_count < steps
            /\ page_count' = page_count + 1
            /\ IF session.has_pagination /\ page_count + 1 > max_iterations
               THEN Return("limit_reached", all_text_parts)
               ELSE pc' = "js_extract" /\ UNCHANGED endVars
    /\ open_sessions' = SessionsAfter(open_sessions, pc')
    /\ UNCHANGED <<delayed, get_response, sink_up, extract_call, extract_result, extraction_doc, session, start_page, mode, all_text_parts, html, fetched>>
    /\ UNCHANGED <<urlVars, jsVars, jobVars>>

JsLoopTop == JsLoopTopWithin(MaxSteps)

\* page.content(), extract_text_with_inline_links, the fingerprint check and
\* the append; neither the snapshot nor the extraction is inside a try/except
JsExtract ==
    /\ pc = "js_extract"
    /\ \/ /\ Raise("snapshot_or_extraction_error")
          /\ UNCHANGED <<all_text_parts, previous_content_hash,
                         consecutive_same_content>>
       \/ \E text \in Texts :
            /\ IF text = EmptyText
               THEN /\ pc' = "js_locate"
                    /\ UNCHANGED <<all_text_parts, previous_content_hash,
                                   consecutive_same_content, endVars>>
               ELSE IF /\ ContentHash(text) = previous_content_hash
                       /\ consecutive_same_content + 1 >= StableThreshold
               THEN /\ consecutive_same_content' = consecutive_same_content + 1
                    /\ Return("content_stable", all_text_parts)
                    /\ UNCHANGED <<all_text_parts, previous_content_hash>>
               ELSE /\ IF ContentHash(text) = previous_content_hash
                       THEN /\ consecutive_same_content' = consecutive_same_content + 1
                            /\ UNCHANGED previous_content_hash
                       ELSE /\ consecutive_same_content' = 0
                            /\ previous_content_hash' = ContentHash(text)
                    /\ all_text_parts' = Append(all_text_parts,
                          [url |-> StartUrl, page_number |-> page_count,
                           text |-> text, links |-> <<>>])
                    /\ pc' = IF session.has_job THEN "progress_read" ELSE "js_locate"
                    /\ UNCHANGED endVars
    /\ open_sessions' = SessionsAfter(open_sessions, pc')
    /\ UNCHANGED <<delayed, get_response, sink_up, extract_call, extract_result, extraction_doc, session, start_page, mode, page_count, html, fetched>>
    /\ UNCHANGED <<urlVars, consecutive_no_next, next_button, clicked, jobVars>>

\* find_next_page_button: every pattern skips a control whose own disabled
\* attribute or class is set
find_next_page_button(page) ==
    IF page.next \in {"enabled", "disabled_parent"} THEN "next" ELSE "none"

\* is_next_disabled of the last-page detection, for the control that
\* find_next_page_button returned
IsNextDisabled(page) == page.next = "disabled_parent"

\* Method 1 of the last-page detection: the aria-current element reads
\* "X of Y" with X >= Y and the next control is missing or disabled.  Method
\* 2, for an "X of Y" in the text of a container, breaks out of its for loop
\* only and stops nothing.
ExplicitLastPage(page) ==
    /\ page.indicator = "last"
    /\ page.indicator_in = "current_link"
    /\ (find_next_page_button(page) = "none" \/ IsNextDisabled(page))

\* `if not next_button:` the numbered link current+1, or without a marked
\* current page the first numbered link above 1
LocatedControl(page) ==
    IF find_next_page_button(page) # "none" THEN "next"
    ELSE IF page.numbered # "none" THEN "numbered"
    ELSE "none"

\* a control to click has been located
HasNextControl(page) == LocatedControl(page) # "none"

\* current_page_from_pattern < total_pages_from_pattern: read from the
\* aria-current element only
PatternShowsMore(page) ==
    page.indicator = "more" /\ page.indicator_in = "current_link"

\* is_disabled after the "X of Y" information has been used
IsDisabled(page) ==
    /\ LocatedControl(page) = "next"
    /\ page.next = "disabled_parent"
    /\ ~PatternShowsMore(page)

\* the located control is disabled, "X of Y" does not show more pages and
\* there is no numbered current+1 link to use instead
StopsOnDisabled(page) == IsDisabled(page) /\ page.numbered # "next"

\* next_button when the click strategies start
ActivatedControl(page) ==
    IF IsDisabled(page) THEN "numbered" ELSE LocatedControl(page)

\* the FacetWP check of the data-page of the control to click
WrapsAround(page) == ActivatedControl(page) = "next" /\ page.next_wraps

\* last-page detection, location of the next control, disabled check, on
\* the markup `page` of the snapshot taken in this iteration
JsLocateOn(page) ==
    /\ pc = "js_locate"
    /\ IF ExplicitLastPage(page) \/ page.facet_last
       THEN Return("explicit_last_page", all_text_parts) /\ next_button' = "none"
       ELSE IF ~HasNextControl(page)
       THEN Return("no_next_control", all_text_parts) /\ next_button' = "none"
       ELSE IF StopsOnDisabled(page)
       THEN Return("next_disabled", all_text_parts) /\ next_button' = "none"
       ELSE IF WrapsAround(page)
       THEN Return("explicit_last_page", all_text_parts) /\ next_button' = "none"
       ELSE /\ pc' = "js_click"
            /\ next_button' = ActivatedControl(page)
            /\ UNCHANGED endVars
    /\ open_sessions' = SessionsAfter(open_sessions, pc')
    /\ UNCHANGED <<delayed, get_response, sink_up, extract_call, extract_result, extraction_doc, session, start_page, mode, all_text_parts, page_count, html, fetched>>
    /\ UNCHANGED <<urlVars, consecutive_no_next, previous_content_hash,
                   consecutive_same_content, clicked, jobVars>>

\* the site decides what the snapshot holds
JsLocate == \E page \in Soups : JsLocateOn(page)

\* the click strategies, each inside its own try/except: clicked or not
JsClick ==
    /\ pc = "js_click"
    /\ clicked' \in BOOLEAN
    /\ pc' = "js_settle"
    /\ UNCHANGED <<open_sessions, delayed, get_response, sink_up, extract_call, extract_result, extraction_doc, session, start_page, mode, all_text_parts, page_count, html, fetched>>
    /\ UNCHANGED <<urlVars, consecutive_no_next, previous_content_hash,
                   consecutive_same_content, next_button, jobVars, endVars>>

\* `if not clicked: break`, the settle waits and scroll, the counter reset,
\* and the except branch taken when a wait or the scroll raises
JsSettle ==
    /\ pc = "js_settle"
    /\ IF ~clicked
       THEN /\ Return("activation_failed", all_text_parts)
            /\ UNCHANGED <<consecutive_no_next, consecutive_same_content>>
       ELSE \/ /\ consecutive_no_next' = 0
               /\ consecutive_same_content' = 0
               /\ pc' = "js_loop"
               /\ UNCHANGED endVars
            \/ /\ consecutive_no_next' = consecutive_no_next + 1
               /\ UNCHANGED consecutive_same_content
               /\ IF consecutive_no_next + 1 >= MaxActivationFailures
                  THEN Return("activation_failed", all_text_parts)
                  ELSE pc' = "js_loop" /\ UNCHANGED endVars
    /\ clicked' = FALSE
    /\ next_button' = "none"
    /\ open_sessions' = SessionsAfter(open_sessions, pc')
    /\ UNCHANGED <<delayed, get_response, sink_up, extract_call, extract_result, extraction_doc, session, start_page, mode, all_text_parts, page_count, html, fetched>>
    /\ UNCHANGED <<urlVars, previous_content_hash, jobVars>>

\* variant: the flag is not looked at once the traversal is over
CancelledAfterExtractionNever(flags) == FALSE

\* `if cancellation_flags.get(job_id):` after run_in_executor
CancelledAfterExtraction(flags) == flags

(***************************************************************************)
(* process_extraction after run_in_executor has handed back the result or  *)
(* the error of the traversal.  It runs on the server's event loop without *)
(* awaiting anything, like cancel_extraction, so neither runs inside the   *)
(* other.                                                                  *)
(***************************************************************************)
ProcessResult ==
    /\ pc = "done"
    /\ session.has_job
    /\ cancel_pc # "write"
    /\ pc' = "job_end"
    /\ IF outcome = "raised"
       THEN /\ job_record' = update_redis_status(FailedRecord("traversal_error"))
            /\ UNCHANGED <<cancellation_flags, extraction_doc>>
       ELSE IF CancelledAfterExtraction(cancellation_flags)
       THEN /\ job_record' = update_redis_status(CancelledRecord)
            /\ cancellation_flags' = FALSE
            /\ UNCHANGED extraction_doc
       ELSE IF NoContent(returned)
       THEN /\ job_record' = update_redis_status(FailedRecord("no_content"))
            /\ UNCHANGED <<cancellation_flags, extraction_doc>>
       ELSE \/ /\ extraction_doc' = ExtractionDoc(returned, IncludeLinks(session))
               /\ job_record' = update_redis_status(CompletedRecord(extraction_doc'))
               /\ UNCHANGED cancellation_flags
            \/ /\ job_record' = update_redis_status(FailedRecord("store_error"))
               /\ UNCHANGED <<cancellation_flags, extraction_doc>>
    /\ UNCHANGED <<open_sessions, delayed, get_response, sink_up, extract_call, extract_result>>
    /\ UNCHANGED <<session, start_page, mode, all_text_parts, page_count, html, fetched>>
    /\ UNCHANGED <<urlVars, jsVars, endVars, data, cancel_pc, cancel_data>>

Next ==
    \/ Classify
    \/ UrlLoopTop
    \/ UrlLoad
    \/ UrlExtract
    \/ UrlEnqueue
    \/ ProgressRead
    \/ ProgressWrite
    \/ CancelRead
    \/ CancelWrite
    \/ JsGoto
    \/ JsLoopTop
    \/ JsExtract
    \/ JsLocate
    \/ JsClick
    \/ JsSettle
    \/ ProcessResult

Spec == Init /\ [][Next]_vars

(***************************************************************************)
(* The same job with a JobProgressSink that can fail: Redis stops and      *)
(* starts answering at any moment, and the job's record can reach the end  *)
(* of its time to live.                                                    *)
(***************************************************************************)

InitSink ==
    /\ session \in {s \in Sessions : s.has_job /\ s.has_pagination}
    /\ start_page \in {p \in StartPages : p.widget = "none" /\ ~p.placeholder_links /\ p.next_href \in {"placeholder", "different"}}
    /\ pc = "classify"
    /\ mode = "unknown"
    /\ all_text_parts = <<>>
    /\ page_count = 0
    /\ iteration = 0
    /\ visited_urls = {}
    /\ urls_to_visit = <<StartUrl>>
    /\ url = StartUrl
    /\ pagination_links = <<>>
    /\ html = Unbound
    /\ consecutive_no_next = 0
    /\ previous_content_hash = NoHash
    /\ consecutive_same_content = 0
    /\ next_button = "none"
    /\ clicked = FALSE
    /\ outcome = "running"
    /\ returned = <<>>
    /\ reason = "none"
    /\ returned_reason = "none"
    /\ job_record = IF session.has_job THEN InitialRecord ELSE NoRecord
    /\ cancellation_flags = FALSE
    /\ data = NoRecord
    /\ cancel_pc = "idle"
    /\ cancel_data = NoRecord
    /\ extraction_doc = NoRecord
    /\ delayed = FALSE
    /\ open_sessions = 0
    /\ get_response = NoResponse
    /\ sink_up \in BOOLEAN
    /\ extract_call = NoCall
    /\ extract_result = NoResult
    /\ fetched = [classifier |-> 0, controller |-> [u \in Urls |-> 0]]

\* Redis becomes unreachable, or reachable again
SinkFlip ==
    /\ sink_up' = ~sink_up
    /\ UNCHANGED <<open_sessions, delayed, get_response, extract_call, extract_result, extraction_doc, session, start_page, pc, mode,
                   all_text_parts, page_count, html, fetched>>
    /\ UNCHANGED <<urlVars, jsVars, endVars, jobVars>>

\* the record set with setex(..., 3600, ...) expires
RecordExpires ==
    /\ job_record # NoRecord
    /\ job_record' = NoRecord
    /\ UNCHANGED <<open_sessions, delayed, get_response, sink_up, extract_call, extract_result, extraction_doc, session, start_page, pc,
                   mode, all_text_parts, page_count, html, fetched>>
    /\ UNCHANGED <<urlVars, jsVars, endVars, cancellation_flags, data, cancel_pc, cancel_data>>

NextSink ==
    \/ Classify
    \/ UrlLoopTop
    \/ UrlLoad
    \/ UrlExtract
    \/ UrlEnqueue
    \/ ProgressRead
    \/ ProgressWrite
    \/ CancelRead
    \/ CancelWrite
    \/ JsGoto
    \/ JsLoopTop
    \/ JsExtract
    \/ JsLocate
    \/ JsClick
    \/ JsSettle
    \/ ProcessResult
    \/ SinkFlip
    \/ RecordExpires

SpecSink == InitSink /\ [][NextSink]_vars

(***************************************************************************)
(* The job together with the requests of its client: DELETE                *)
(* /extract/{job_id} any number of times and GET /extract/result/{job_id}, *)
(* while the record of the job lives and after it has expired.             *)
(***************************************************************************)

InitRequests ==
    /\ session \in {s \in Sessions : s.has_job /\ s.has_pagination}
    /\ start_page \in {p \in StartPages : p.widget = "none" /\ ~p.placeholder_links /\ p.next_href \in {"placeholder", "different"}}
    /\ pc = "classify"
    /\ mode = "unknown"
    /\ all_text_parts = <<>>
    /\ page_count = 0
    /\ iteration = 0
    /\ visited_urls = {}
    /\ urls_to_visit = <<StartUrl>>
    /\ url = StartUrl
    /\ pagination_links = <<>>
    /\ html = Unbound
    /\ consecutive_no_next = 0
    /\ previous_content_hash = NoHash
    /\ consecutive_same_content = 0
    /\ next_button = "none"
    /\ clicked = FALSE
    /\ outcome = "running"
    /\ returned = <<>>
    /\ reason = "none"
    /\ returned_reason = "none"
    /\ job_record = IF session.has_job THEN InitialRecord ELSE NoRecord
    /\ cancellation_flags = FALSE
    /\ data = NoRecord
    /\ cancel_pc = "idle"
    /\ cancel_data = NoRecord
    /\ extraction_doc = NoRecord
    /\ delayed = FALSE
    /\ open_sessions = 0
    /\ get_response = NoResponse
    /\ sink_up = TRUE
    /\ extract_call = NoCall
    /\ extract_result = NoResult
    /\ fetched = [classifier |-> 0, controller |-> [u \in Urls |-> 0]]

\* the response of cancel_extraction has been sent; the client can send
\* another DELETE
CancelReturn ==
    /\ cancel_pc \in {"accepted", "rejected", "not_found"}
    /\ cancel_pc' = "idle"
    /\ UNCHANGED <<open_sessions, delayed, get_response, sink_up, extract_call, extract_result, extraction_doc, session,
                   start_page, pc, mode, all_text_parts, page_count, html, fetched>>
    /\ UNCHANGED <<urlVars, jsVars, endVars, job_record, cancellation_flags, data, cancel_data>>

\* variant: the status is not looked at
IsCompletedAnyStatus(status) == TRUE

\* `status["status"] != "completed"` refuses the request
IsCompleted(status) == status.status = "completed"

\* get_result: the status record, then the document of db.extractions
get_result(status_data, extraction) ==
    IF status_data = NoRecord
    THEN [code |-> 404, detail |-> "Job not found or expired"]
    ELSE IF ~IsCompleted(status_data)
    THEN [code |-> 400, detail |-> "not completed"]
    ELSE IF extraction = NoRecord
    THEN [code |-> 404, detail |-> "Extraction result not found in database"]
    ELSE [code |-> 200, body |-> extraction]

\* GET /extract/result/{job_id} on the server's event loop
GetResult ==
    /\ session.has_job
    /\ sink_up
    /\ cancel_pc # "write"
    /\ get_response = NoResponse
    /\ get_response' = get_result(job_record, extraction_doc)
    /\ UNCHANGED <<open_sessions, delayed, sink_up, extract_call, extract_result, extraction_doc, session, start_page, pc,
                   mode, all_text_parts, page_count, html, fetched>>
    /\ UNCHANGED <<urlVars, jsVars, endVars, jobVars>>

\* the response of get_result has been sent
GetReturn ==
    /\ get_response # NoResponse
    /\ get_response' = NoResponse
    /\ UNCHANGED <<open_sessions, delayed, sink_up, extract_call, extract_result, extraction_doc, session, start_page, pc,
                   mode, all_text_parts, page_count, html, fetched>>
    /\ UNCHANGED <<urlVars, jsVars, endVars, jobVars>>

NextRequests ==
    \/ Classify
    \/ UrlLoopTop
    \/ UrlLoad
    \/ UrlExtract
    \/ UrlEnqueue
    \/ ProgressRead
    \/ ProgressWrite
    \/ CancelRead
    \/ CancelWrite
    \/ CancelReturn
    \/ JsGoto
    \/ JsLoopTop
    \/ JsExtract
    \/ JsLocate
    \/ JsClick
    \/ JsSettle
    \/ ProcessResult
    \/ RecordExpires
    \/ GetResult
    \/ GetReturn

SpecRequests == InitRequests /\ [][NextRequests]_vars

(***************************************************************************)
(* Traversals without a requested cap, run to the safety ceiling.  The     *)
(* control-driven controller meets a site that never ends: every snapshot  *)
(* has text, its next control is always there, every click succeeds and    *)
(* nothing raises after it.  URL traversal meets the sites of Spec.        *)
(***************************************************************************)
UncappedSessions == {s \in [use_js : BOOLEAN, has_pagination : {FALSE},
                            max_pages : 1..MaxPagesBound, has_job : {FALSE}] : TRUE}

InitUncapped ==
    /\ session \in UncappedSessions
    /\ start_page \in StartPages
    /\ pc = "classify"
    /\ mode = "unknown"
    /\ all_text_parts = <<>>
    /\ page_count = 0
    /\ iteration = 0
    /\ visited_urls = {}
    /\ urls_to_visit = <<StartUrl>>
    /\ url = StartUrl
    /\ pagination_links = <<>>
    /\ html = Unbound
    /\ consecutive_no_next = 0
    /\ previous_content_hash = NoHash
    /\ consecutive_same_content = 0
    /\ next_button = "none"
    /\ clicked = FALSE
    /\ outcome = "running"
    /\ returned = <<>>
    /\ reason = "none"
    /\ returned_reason = "none"
    /\ job_record = NoRecord
    /\ cancellation_flags = FALSE
    /\ data = NoRecord
    /\ cancel_pc = "idle"
    /\ cancel_data = NoRecord
    /\ extraction_doc = NoRecord
    /\ delayed = FALSE
    /\ open_sessions = 0
    /\ get_response = NoResponse
    /\ sink_up = TRUE
    /\ extract_call = NoCall
    /\ extract_result = NoResult
    /\ fetched = [classifier |-> 0, controller |-> [u \in Urls |-> 0]]

EndlessLoopTop == JsLoopTopWithin(SafetyCeiling + MaxSteps)

EndlessExtract ==
    /\ JsExtract
    /\ pc' = "js_locate"
    /\ Len(all_text_parts') = Len(all_text_parts) + 1
    /\ all_text_parts'[Len(all_text_parts')].text = [prefix |-> 1, long |-> FALSE]

EndlessLocate == JsLocate /\ pc' = "js_click"

EndlessClick == JsClick /\ clicked'

EndlessSettle == JsSettle /\ pc' = "js_loop" /\ consecutive_no_next' = 0

NextUncapped ==
    \/ Classify
    \/ UrlLoopTop
    \/ UrlLoad
    \/ UrlExtract
    \/ UrlEnqueue
    \/ JsGoto
    \/ EndlessLoopTop
    \/ EndlessExtract
    \/ EndlessLocate
    \/ EndlessClick
    \/ EndlessSettle

SpecUncapped == InitUncapped /\ [][NextUncapped]_vars

(***************************************************************************)
(* The same site for every session without a job, capped or not.  The      *)
(* traversal is one thread of sequential code whose waits all end: a step  *)
(* that can be taken is taken.                                             *)
(***************************************************************************)

InitEndless ==
    /\ session \in {s \in Sessions : ~s.has_job}
    /\ start_page \in StartPages
    /\ pc = "classify"
    /\ mode = "unknown"
    /\ all_text_parts = <<>>
    /\ page_count = 0
    /\ iteration = 0
    /\ visited_urls = {}
    /\ urls_to_visit = <<StartUrl>>
    /\ url = StartUrl
    /\ pagination_links = <<>>
    /\ html = Unbound
    /\ consecutive_no_next = 0
    /\ previous_content_hash = NoHash
    /\ consecutive_same_content = 0
    /\ next_button = "none"
    /\ clicked = FALSE
    /\ outcome = "running"
    /\ returned = <<>>
    /\ reason = "none"
    /\ returned_reason = "none"
    /\ job_record = NoRecord
    /\ cancellation_flags = FALSE
    /\ data = NoRecord
    /\ cancel_pc = "idle"
    /\ cancel_data = NoRecord
    /\ extraction_doc = NoRecord
    /\ delayed = FALSE
    /\ open_sessions = 0
    /\ get_response = NoResponse
    /\ sink_up = TRUE
    /\ extract_call = NoCall
    /\ extract_result = NoResult
    /\ fetched = [classifier |-> 0, controller |-> [u \in Urls |-> 0]]

SpecEndless == InitEndless /\ [][NextUncapped]_vars /\ WF_vars(NextUncapped)


(***************************************************************************)
(* Aggregation on its own: process_extraction applied to the result lists  *)
(* that a URL traversal of a site with linked pages can return.  Page i of *)
(* the list is the page of URL i; its links are those that extraction      *)
(* found in it, already free of repeated URLs, and there are none when the *)
(* request says include_links = false.                                     *)
(***************************************************************************)
ResultTexts == {t \in Texts : t.prefix > 0 /\ (t.long => t.prefix = 1)}

PageLinkLists ==
    {l \in SeqsUpTo(Links, Cardinality(LinkUrls)) :
        \A i, j \in 1..Len(l) : l[i].url = l[j].url => i = j}

\* what extraction finds in one page: its text (not empty) and its links
Extracted(include_links) ==
    [text : ResultTexts, links : IF include_links THEN PageLinkLists ELSE {<<>>}]

\* the PageResult list of the pages of URLs 1..n, given what extraction found
ResultList(n, extracted) ==
    [i \in 1..n |-> [url |-> i, page_number |-> i,
                     text |-> extracted[i].text, links |-> extracted[i].links]]

AggregateSessions == [use_js : {FALSE}, has_pagination : {FALSE}, max_pages : {1},
                      has_job : {TRUE}, include_links : BOOLEAN]

InitAggregate ==
    /\ session \in AggregateSessions
    /\ start_page = Unbound
    /\ pc = "done"
    /\ mode = "url"
    /\ \E n \in 0..MaxPagesBound :
          \E extracted \in [1..n -> Extracted(session.include_links)] :
             all_text_parts = ResultList(n, extracted)
    /\ page_count = Len(all_text_parts)
    /\ iteration = Len(all_text_parts)
    /\ visited_urls = 1..Len(all_text_parts)
    /\ urls_to_visit = <<>>
    /\ url = Len(all_text_parts)
    /\ pagination_links = <<>>
    /\ html = Unbound
    /\ consecutive_no_next = 0
    /\ previous_content_hash = NoHash
    /\ consecutive_same_content = 0
    /\ next_button = "none"
    /\ clicked = FALSE
    /\ outcome = "returned"
    /\ returned = all_text_parts
    /\ cancel_pc \in {"idle", "accepted"}
    /\ reason = IF cancel_pc = "accepted" THEN "cancelled" ELSE "queue_empty"
    /\ returned_reason = "none"
    /\ job_record = [status |-> IF cancel_pc = "accepted" THEN "cancelled" ELSE "processing",
                     pages_extracted |-> Len(all_text_parts)]
    /\ cancellation_flags = (cancel_pc = "accepted")
    /\ data = NoRecord
    /\ cancel_data = NoRecord
    /\ extraction_doc = NoRecord
    /\ delayed = FALSE
    /\ open_sessions = 0
    /\ get_response = NoResponse
    /\ sink_up = TRUE
    /\ extract_call = NoCall
    /\ extract_result = NoResult
    /\ fetched = [classifier |-> 0,
                  controller |-> [u \in Urls |-> IF u <= Len(all_text_parts) THEN 1 ELSE 0]]

NextAggregate == ProcessResult

SpecAggregate == InitAggregate /\ [][NextAggregate]_vars

(***************************************************************************)
(* A job on the site https://a.test: the listing has the pages 1, 2, 3 at  *)
(* /list?page=1..3, and the start URL /list serves page 1.  Every page has *)
(* the anchor "More" to /more and a pager: either a next link to the       *)
(* following page, or numbered links to the other two pages.  Nothing      *)
(* fails to load and nobody cancels.                                       *)
(***************************************************************************)
SitePageNumbers == {1, 2, 3}
\* https://a.test/list?page=k
SitePageUrl(k) == NumUrls + k
SiteUrls == {StartUrl} \cup {SitePageUrl(k) : k \in SitePageNumbers}
\* the page that the site serves at a URL
SitePageOf(u) == IF u = StartUrl THEN 1 ELSE u - NumUrls

MoreLink == [url |-> "https://a.test/more", text |-> "More"]

\* the load of a URL, as far as the controller reads it: the text of the
\* page served and the links that extraction finds in it
SiteHtml(u) ==
    [text |-> [prefix |-> SitePageOf(u), long |-> FALSE], links |-> <<MoreLink>>]

\* what find_pagination_links can return for the page at a URL
SitePagers(u) ==
    LET k == SitePageOf(u)
        others == {SitePageUrl(j) : j \in SitePageNumbers \ {k}}
    IN {IF k + 1 \in SitePageNumbers THEN <<SitePageUrl(k + 1)>> ELSE <<>>}
       \cup {l \in SeqsUpTo(others, Cardinality(others)) :
                NoDup(l) /\ Len(l) = Cardinality(others)}

\* a request with the defaults of ExtractRequest, with or without rendering
SiteSessions == [use_js : BOOLEAN, has_pagination : {FALSE}, max_pages : {1},
                 has_job : {TRUE}]
\* the start page has no control-driven paging markup
SiteStartPages == [widget : {"none"}, placeholder_links : {FALSE},
                   next_href : {"none", "different"}]

InitSite ==
    /\ session \in SiteSessions
    /\ start_page \in SiteStartPages
    /\ pc = "classify"
    /\ mode = "unknown"
    /\ all_text_parts = <<>>
    /\ page_count = 0
    /\ iteration = 0
    /\ visited_urls = {}
    /\ urls_to_visit = <<StartUrl>>
    /\ url = StartUrl
    /\ pagination_links = <<>>
    /\ html = Unbound
    /\ consecutive_no_next = 0
    /\ previous_content_hash = NoHash
    /\ consecutive_same_content = 0
    /\ next_button = "none"
    /\ clicked = FALSE
    /\ outcome = "running"
    /\ returned = <<>>
    /\ reason = "none"
    /\ returned_reason = "none"
    /\ job_record = InitialRecord
    /\ cancellation_flags = FALSE
    /\ data = NoRecord
    /\ cancel_pc = "idle"
    /\ cancel_data = NoRecord
    /\ extraction_doc = NoRecord
    /\ delayed = FALSE
    /\ open_sessions = 0
    /\ get_response = NoResponse
    /\ sink_up = TRUE
    /\ extract_call = NoCall
    /\ extract_result = NoResult
    /\ fetched = [classifier |-> 0, controller |-> [u \in Urls \cup SiteUrls |-> 0]]

SiteLoad == UrlLoadOf({SiteHtml(url)})

SiteExtract == UrlExtract /\ outcome' = "running"

SiteEnqueue == UrlEnqueueFrom(SitePagers(url)) /\ outcome' = "running"

NextSite ==
    \/ Classify
    \/ UrlLoopTop
    \/ SiteLoad
    \/ SiteExtract
    \/ SiteEnqueue
    \/ ProgressRead
    \/ ProgressWrite
    \/ ProcessResult

SpecSite == InitSite /\ [][NextSite]_vars

(***************************************************************************)
(* The same site while the URL of its page 2 does not answer, traversed    *)
(* with a cap on the number of pages.                                      *)
(***************************************************************************)

\* load_page_* returns None for ?page=2 and the page for every other URL
FlakyHtml(u) == IF SitePageOf(u) = 2 /\ u # StartUrl THEN NoHtml ELSE SiteHtml(u)

InitFlaky ==
    /\ session \in [use_js : BOOLEAN, has_pagination : {TRUE},
                   max_pages : 1..MaxPagesBound, has_job : BOOLEAN]
    /\ start_page \in SiteStartPages
    /\ pc = "classify"
    /\ mode = "unknown"
    /\ all_text_parts = <<>>
    /\ page_count = 0
    /\ iteration = 0
    /\ visited_urls = {}
    /\ urls_to_visit = <<StartUrl>>
    /\ url = StartUrl
    /\ pagination_links = <<>>
    /\ html = Unbound
    /\ consecutive_no_next = 0
    /\ previous_content_hash = NoHash
    /\ consecutive_same_content = 0
    /\ next_button = "none"
    /\ clicked = FALSE
    /\ outcome = "running"
    /\ returned = <<>>
    /\ reason = "none"
    /\ returned_reason = "none"
    /\ job_record = InitialRecord
    /\ cancellation_flags = FALSE
    /\ data = NoRecord
    /\ cancel_pc = "idle"
    /\ cancel_data = NoRecord
    /\ extraction_doc = NoRecord
    /\ delayed = FALSE
    /\ open_sessions = 0
    /\ get_response = NoResponse
    /\ sink_up = TRUE
    /\ extract_call = NoCall
    /\ extract_result = NoResult
    /\ fetched = [classifier |-> 0, controller |-> [u \in Urls \cup SiteUrls |-> 0]]

FlakyLoad == UrlLoadOf({FlakyHtml(url)})

NextFlaky ==
    \/ Classify
    \/ UrlLoopTop
    \/ FlakyLoad
    \/ SiteExtract
    \/ SiteEnqueue
    \/ ProgressRead
    \/ ProgressWrite
    \/ ProcessResult

SpecFlaky == InitFlaky /\ [][NextFlaky]_vars

(***************************************************************************)
(* ContentExtractor: extract_text_with_inline_links called on its own.     *)
(* A document is the sequence of its anchors in document order; each       *)
(* anchor has its href, its visible text, and whether the valid selector   *)
(* of the call matches an element around it.                               *)
(***************************************************************************)

\* most anchors of a document
MaxAnchors == 2

\* base_url of the call (the URL of the page), or None
BaseUrl == "https://a.test/list"
NoBase == "None"

\* href attributes: a fragment, the three pseudo-URLs, a relative and an
\* absolute reference to the same page
Hrefs == {"#top", "javascript:void(0)", "mailto:a@a.test", "tel:+1",
          "/more", "https://a.test/more"}

\* get_text(strip=True) of an anchor
AnchorTexts == {"", "More", "Details"}

Anchors == [href : Hrefs, text : AnchorTexts, selected : BOOLEAN]

Documents == UNION {[1..n -> Anchors] : n \in 0..MaxAnchors}

\* selector argument: None, a selector soup.select accepts, one it rejects
Selectors == {"None", "valid", "invalid"}

\* the call raised (the exception leaves the function)
ExtractRaised == [raised |-> TRUE]

\* urljoin(base_url, href)
urljoin(base_url, href) ==
    CASE href = "#top" -> "https://a.test/list#top"
      [] href = "/more" -> "https://a.test/more"
      [] OTHER -> href

\* soup.select(selector) for a selector it accepts
Select(document) == SelectSeq(document, LAMBDA a : a.selected)

\* lines 113-126: the soup the text is taken from; a selector that matches
\* nothing, and one soup.select raises on, leave the whole document
TargetSoup(document, selector) ==
    IF selector = "valid" /\ Select(document) # <<>>
    THEN Select(document)
    ELSE document

\* line 139: hrefs whose anchor is replaced by its text alone
KeepsTextOnly(href) == href \in {"javascript:void(0)", "mailto:a@a.test", "tel:+1"}

\* lines 134-156: what replaces one anchor: its text and the URL put after it
\* ("" when there is none)
Replacement(a, include_links, base_url) ==
    IF include_links /\ base_url # NoBase /\ ~KeepsTextOnly(a.href)
    THEN [text |-> a.text, url |-> urljoin(base_url, a.href)]
    ELSE [text |-> a.text, url |-> ""]

\* lines 159-168: one line per replaced anchor, empty lines dropped
RECURSIVE text_content(_, _, _)
text_content(soup, include_links, base_url) ==
    IF soup = <<>> THEN <<>>
    ELSE LET line == Replacement(Head(soup), include_links, base_url)
             rest == text_content(Tail(soup), include_links, base_url)
         IN  IF line.text = "" /\ line.url = "" THEN rest ELSE <<line>> \o rest

\* line 185: hrefs left out of the link list
NotOutbound(href) ==
    href \in {"javascript:void(0)", "mailto:a@a.test", "tel:+1", "#top"}

\* lines 181-202: the entries of the anchors of temp_soup, the first one of
\* every URL
RECURSIVE unique_links(_, _, _)
unique_links(temp_soup, base_url, seen) ==
    IF temp_soup = <<>> THEN <<>>
    ELSE LET a == Head(temp_soup)
             full_url == urljoin(base_url, a.href)
         IN  IF NotOutbound(a.href) \/ full_url \in seen
             THEN unique_links(Tail(temp_soup), base_url, seen)
             ELSE <<[url |-> full_url,
                     text |-> IF a.text # "" THEN a.text ELSE a.href,
                     href |-> a.href]>>
                  \o unique_links(Tail(temp_soup), base_url, seen \cup {full_url})

\* line 176: temp_soup.select(selector) is in no try; it raises what
\* soup.select raised at line 117
SecondSelectRaises(selector) == selector = "invalid"

\* lines 109-207
extract_text_with_inline_links(document, selector, include_links, base_url) ==
    LET soup == TargetSoup(document, selector)
    IN  IF include_links /\ base_url # NoBase
        THEN IF SecondSelectRaises(selector)
             THEN ExtractRaised
             ELSE [text |-> text_content(soup, include_links, base_url),
                   links |-> unique_links(soup, base_url, {})]
        ELSE [text |-> text_content(soup, include_links, base_url),
              links |-> <<>>]

ExtractCalls ==
    [html : Documents, selector : Selectors, include_links : BOOLEAN,
     base_url : {BaseUrl, NoBase}]

\* nothing runs but one call of the function, on any arguments
InitExtract ==
    /\ session \in [use_js : {TRUE}, has_pagination : {FALSE}, max_pages : {1},
                    has_job : {FALSE}]
    /\ start_page \in {p \in StartPages : p.widget = "none" /\ ~p.placeholder_links
                                          /\ p.next_href = "none"}
    /\ pc = "classify"
    /\ mode = "unknown"
    /\ all_text_parts = <<>>
    /\ page_count = 0
    /\ iteration = 0
    /\ visited_urls = {}
    /\ urls_to_visit = <<>>
    /\ url = StartUrl
    /\ pagination_links = <<>>
    /\ html = Unbound
    /\ consecutive_no_next = 0
    /\ previous_content_hash = NoHash
    /\ consecutive_same_content = 0
    /\ next_button = "none"
    /\ clicked = FALSE
    /\ outcome = "running"
    /\ returned = <<>>
    /\ reason = "none"
    /\ returned_reason = "none"
    /\ job_record = NoRecord
    /\ cancellation_flags = FALSE
    /\ data = NoRecord
    /\ cancel_pc = "idle"
    /\ cancel_data = NoRecord
    /\ extraction_doc = NoRecord
    /\ delayed = FALSE
    /\ open_sessions = 0
    /\ get_response = NoResponse
    /\ sink_up = TRUE
    /\ extract_call \in ExtractCalls
    /\ extract_result = NoResult
    /\ fetched = [classifier |-> 0, controller |-> [u \in Urls |-> 0]]

\* the call runs to its end
Extract ==
    /\ extract_call # NoCall
    /\ extract_result = NoResult
    /\ extract_result' = extract_text_with_inline_links(
           extract_call.html, extract_call.selector,
           extract_call.include_links, extract_call.base_url)
    /\ UNCHANGED <<open_sessions, delayed, get_response, sink_up, extract_call, extraction_doc, session, start_page, pc, mode,
                   all_text_parts, page_count, html, fetched>>
    /\ UNCHANGED <<urlVars, jsVars, endVars, jobVars>>

NextExtract == Extract

SpecExtract == InitExtract /\ [][NextExtract]_vars

(***************************************************************************)
(* find_pagination_links called by the URL controller on the page of the   *)
(* start URL "https://a.test/list".  The page is the sequence of its       *)
(* anchors: the URL each resolves to, whether it stands inside a           *)
(* pagination container, and its text.                                     *)
(***************************************************************************)

\* urljoin(base_url, href) of the anchors:
\*   "https://a.test/list?page=2", "https://a.test/list/page-2",
\*   "https://a.test/about", "https://b.test/list?page=2",
\*   "https://a.test/news?page=2"
PageParamUrl == NumUrls + 4
PagePathUrl == NumUrls + 5
PlainUrl == NumUrls + 6
OtherHostUrl == NumUrls + 7
OtherPathUrl == NumUrls + 8
TargetUrls == {PageParamUrl, PagePathUrl, PlainUrl, OtherHostUrl, OtherPathUrl}

\* re.search(r'[?&](page|p)=\d+', full_url, re.I)
HasPageParam(u) == u \in {PageParamUrl, OtherHostUrl, OtherPathUrl}

\* re.search(r'/page[_-]?\d+', full_url, re.I)
HasPagePath(u) == u = PagePathUrl

\* parsed.netloc == base_netloc
SameNetloc(u) == u # OtherHostUrl

\* one of the two paths is a prefix of (or contained in) the other one:
\* "/list" and "/list", "/list" and "/list/page-2"
PathRelated(u) == u \in {PageParamUrl, PagePathUrl, OtherHostUrl}

\* get_text(strip=True) of an anchor
PagerTexts == {"2", "Last", "About"}

\* the text contains next, page, >, >> or last, or is a number
TextSuggestsPagination(text) == text \in {"2", "Last"}

PagerAnchors == [target : TargetUrls, in_container : BOOLEAN, text : PagerTexts]

DiscoverPages ==
    [text : {[prefix |-> 1, long |-> FALSE]}, links : {<<>>},
     anchors : UNION {[1..n -> PagerAnchors] : n \in 0..MaxAnchors}]

\* Strategy 1: a same-domain link inside a pagination container whose URL
\* looks like pagination or whose text suggests it
InContainer(a) ==
    /\ a.in_container
    /\ SameNetloc(a.target)
    /\ (HasPageParam(a.target) \/ HasPagePath(a.target)
        \/ TextSuggestsPagination(a.text))

\* Strategy 2: any same-domain link with a page parameter or a /page-N path
\* on a path related to the one of the page
Anywhere(a) ==
    /\ SameNetloc(a.target)
    /\ (HasPageParam(a.target) \/ HasPagePath(a.target))
    /\ PathRelated(a.target)

\* the set pagination_links of find_pagination_links
PaginationLinkSet(anchors) ==
    {anchors[i].target : i \in {k \in 1..Len(anchors) :
                                  InContainer(anchors[k]) \/ Anywhere(anchors[k])}}

\* list(pagination_links): the elements of the set in some order
find_pagination_links(anchors) ==
    {s \in SeqsUpTo(TargetUrls, MaxAnchors) :
        NoDup(s) /\ Range(s) = PaginationLinkSet(anchors)}

InitDiscover ==
    /\ html \in DiscoverPages
    /\ session \in [use_js : {FALSE}, has_pagination : {FALSE}, max_pages : {1},
                    has_job : {FALSE}]
    /\ start_page = Unbound
    /\ pc = "url_enqueue"
    /\ mode = "url"
    /\ all_text_parts = <<[url |-> StartUrl, page_number |-> 1,
                            text |-> html.text, links |-> html.links]>>
    /\ page_count = 1
    /\ iteration = 1
    /\ visited_urls = {StartUrl}
    /\ urls_to_visit = <<>>
    /\ url = StartUrl
    /\ pagination_links = <<>>
    /\ consecutive_no_next = 0
    /\ previous_content_hash = NoHash
    /\ consecutive_same_content = 0
    /\ next_button = "none"
    /\ clicked = FALSE
    /\ outcome = "running"
    /\ returned = <<>>
    /\ reason = "none"
    /\ returned_reason = "none"
    /\ job_record = NoRecord
    /\ cancellation_flags = FALSE
    /\ data = NoRecord
    /\ cancel_pc = "idle"
    /\ cancel_data = NoRecord
    /\ extraction_doc = NoRecord
    /\ delayed = FALSE
    /\ open_sessions = 0
    /\ get_response = NoResponse
    /\ sink_up = TRUE
    /\ extract_call = NoCall
    /\ extract_result = NoResult
    /\ fetched = [classifier |-> 0, controller |-> [u \in Urls |-> 0]]

\* lines 1239-1256 on the page that was just extracted
DiscoverEnqueue ==
    /\ html # Unbound
    /\ html # NoHtml
    /\ UrlEnqueueFrom(find_pagination_links(html.anchors))
    /\ outcome' = "running"

NextDiscover == DiscoverEnqueue

SpecDiscover == InitDiscover /\ [][NextDiscover]_vars

(***************************************************************************)
(* One iteration of the control-driven loop from its last-page detection   *)
(* to the choice of the control to click, on any snapshot of the page.     *)
(***************************************************************************)

InitLocate ==
    /\ html \in Snapshots
    /\ session \in {s \in Sessions : s.use_js /\ ~s.has_pagination /\ ~s.has_job}
    /\ start_page = Unbound
    /\ pc = "js_locate"
    /\ mode = "js"
    /\ all_text_parts = <<[url |-> StartUrl, page_number |-> 1,
                            text |-> [prefix |-> 1, long |-> FALSE], links |-> <<>>]>>
    /\ page_count = 1
    /\ iteration = 0
    /\ visited_urls = {}
    /\ urls_to_visit = <<StartUrl>>
    /\ url = StartUrl
    /\ pagination_links = <<>>
    /\ consecutive_no_next = 0
    /\ previous_content_hash = ContentHash([prefix |-> 1, long |-> FALSE])
    /\ consecutive_same_content = 0
    /\ next_button = "none"
    /\ clicked = FALSE
    /\ outcome = "running"
    /\ returned = <<>>
    /\ reason = "none"
    /\ returned_reason = "none"
    /\ job_record = IF session.has_job THEN InitialRecord ELSE NoRecord
    /\ cancellation_flags = FALSE
    /\ data = NoRecord
    /\ cancel_pc = "idle"
    /\ cancel_data = NoRecord
    /\ extraction_doc = NoRecord
    /\ delayed = FALSE
    /\ open_sessions = 1
    /\ get_response = NoResponse
    /\ sink_up = TRUE
    /\ extract_call = NoCall
    /\ extract_result = NoResult
    /\ fetched = [classifier |-> 1,
                  controller |-> [u \in Urls |-> IF u = StartUrl THEN 1 ELSE 0]]

\* lines 572-870 on the snapshot `html` of this iteration
LocateInSnapshot ==
    /\ html \in Snapshots
    /\ JsLocateOn(html)

NextLocate == LocateInSnapshot

SpecLocate == InitLocate /\ [][NextLocate]_vars

(***************************************************************************)
(* Properties.                                                             *)
(***************************************************************************)

Count(x, s) == Cardinality({i \in 1..Len(s) : s[i] = x})

AtLoopTop == pc \in {"url_loop", "js_loop"}

\* the job record in Redis has status cancelled
RecordSaysCancelled ==
    session.has_job /\ job_record # NoRecord /\ job_record.status = "cancelled"

\* the traversal thread takes its loop-top step
LoopTopStep == AtLoopTop /\ (pc' # pc \/ iteration' # iteration)

\* C1: with has_pagination = true the result list never has more than
\* max_pages entries, in URL mode and in control-driven mode, neither while
\* the traversal runs nor in the list it returns.
CapNeverExceeded ==
    session.has_pagination =>
        /\ Len(all_text_parts) <= session.max_pages
        /\ Len(returned) <= session.max_pages

\* C1 witness: a URL traversal returned max_pages pages while further URLs
\* were still queued.
CapReachedWithPagesLeft ==
    /\ mode = "url"
    /\ session.has_pagination
    /\ outcome = "returned"
    /\ Len(returned) = session.max_pages
    /\ urls_to_visit # <<>>


\* C2: in control-driven traversal no three consecutive PageResults carry
\* the same first 2000 characters: content that stays identical stops the
\* loop (content_stable) before a third page with it is appended, also when
\* every activation succeeds.
NoThirdDuplicatePage ==
    mode = "js" =>
        \A i \in 1..(Len(all_text_parts) - 2) :
            ~ /\ ContentHash(all_text_parts[i].text) = ContentHash(all_text_parts[i + 1].text)
              /\ ContentHash(all_text_parts[i].text) = ContentHash(all_text_parts[i + 2].text)

\* C3: when the first loop-top check of a traversal observes cancellation,
\* the traversal returns the empty list and has extracted nothing.
CancelledAtFirstCheckReturnsEmpty ==
    [][ (LoopTopStep /\ iteration = 0 /\ page_count = 0 /\ RecordSaysCancelled)
        => /\ outcome' = "returned"
           /\ returned' = <<>>
           /\ all_text_parts' = <<>>
           /\ \A u \in Urls : fetched'.controller[u] = fetched.controller[u] ]_vars

\* C3 witness: a traversal with a job returned as cancelled before its first
\* iteration.
CancelledBeforeFirstPage ==
    /\ outcome = "returned"
    /\ reason = "cancelled"
    /\ iteration = 0
    /\ page_count = 0
    /\ returned = <<>>

\* C4: once the cancel request has been accepted (flag set, record written),
\* the next loop-top step of the traversal ends the traversal.
AcceptedCancelStopsAtNextCheck ==
    [][ (LoopTopStep /\ cancel_pc = "accepted") => pc' = "done" ]_vars

\* C5: a traversal that stops on cancellation returns exactly the
\* PageResults collected before the check, in order and unmodified.
CancelReturnsCollectedPages ==
    [][ (reason' = "cancelled" /\ reason # "cancelled")
        => /\ outcome' = "returned"
           /\ returned' = all_text_parts
           /\ all_text_parts' = all_text_parts ]_vars

\* C5 witness: a cancelled traversal returned two collected pages.
CancelledWithPartialResults ==
    /\ outcome = "returned"
    /\ reason = "cancelled"
    /\ Len(returned) = 2
    /\ returned = all_text_parts

\* C6: one failed activation (no click strategy succeeded) does not end the
\* control-driven traversal as long as fewer than 3 consecutive activations
\* have failed: the loop goes on to its next iteration.
SingleActivationFailureContinues ==
    [][ ( /\ pc = "js_settle"
          /\ ~clicked
          /\ consecutive_no_next + 1 < MaxActivationFailures
          /\ pc' # pc )
        => pc' = "js_loop" ]_vars

\* C7: a traversal never ends in an uncaught error while it holds
\* accumulated PageResults.
FailureKeepsAccumulatedPages ==
    outcome = "raised" => all_text_parts = <<>>

PageNumbersContiguous ==
    \A i \in 1..Len(all_text_parts) : all_text_parts[i].page_number = i

\* C10: in URL traversal no step adds an occurrence of a visited URL to the
\* queue, and the controller never loads a URL more than once.
VisitedNeverRequeued ==
    [][ /\ \A u \in visited_urls : Count(u, urls_to_visit') <= Count(u, urls_to_visit)
        /\ \A u \in Urls : mode = "url" => fetched'.controller[u] <= 1 ]_vars

\* C10 witness: a page was processed whose pagination links include a URL
\* of another page that is already visited, and that URL is not in the queue.
VisitedLinkNotRequeued ==
    /\ mode = "url"
    /\ pc = "url_loop"
    /\ \E i \in 1..Len(pagination_links) :
          /\ pagination_links[i] \in visited_urls
          /\ PathQuery(pagination_links[i]) # PathQuery(url)
          /\ pagination_links[i] \notin Range(urls_to_visit)

\* C12: during one job the start URL is loaded at most once: the load whose
\* result is classified and the loads of the start URL by the controller
\* dispatched to number one together.
StartUrlLoadedOnce ==
    fetched.classifier + fetched.controller[StartUrl] <= 1

\* the orchestrator classifies the start page and dispatches
ClassifyStep == pc = "classify" /\ pc' # pc

\* C13: a start page whose next control has href "#" is dispatched to the
\* control-driven controller, for every session configuration.
PlaceholderNextIsControlDriven ==
    [][ (ClassifyStep /\ start_page.next_href = "placeholder")
        => mode' = "js" ]_vars

\* C14: a start page whose next control resolves to another path or query,
\* and that has no paging widget without targets (no FacetWP container, no
\* data-page controls without href, no placeholder links), is dispatched to
\* URL traversal.
DifferentNextIsUrlAddressable ==
    [][ ( /\ ClassifyStep
          /\ start_page.next_href = "different"
          /\ start_page.widget \in {"none", "data_page_href"}
          /\ ~start_page.placeholder_links )
        => mode' = "url" ]_vars

\* C15: a traversal that returns hands its termination reason (the exit it
\* took: cancelled, limit_reached, content_stable, explicit_last_page,
\* no_next_control, activation_failed, queue empty, safety ceiling) to the
\* caller together with the PageResult list.
ReasonReturnedWithPages ==
    outcome = "returned" => returned_reason = reason

\* process_extraction handles what the traversal handed back
ProcessResultStep == pc = "done" /\ pc' = "job_end"

\* C16: when a traversal returned no PageResult and no cancellation is
\* flagged, process_extraction writes status failed with an error message
\* and stores no result document; a job whose traversal returned no
\* PageResult never has status completed nor a stored document.
EmptyResultFailsJob ==
    [][ /\ (ProcessResultStep /\ outcome = "returned" /\ returned = <<>>
                /\ ~cancellation_flags)
            => /\ job_record'.status = "failed"
               /\ "error" \in DOMAIN job_record'
               /\ extraction_doc' = NoRecord
        /\ (session.has_job /\ outcome' = "returned" /\ returned' = <<>>)
            => /\ job_record'.status # "completed"
               /\ extraction_doc' = NoRecord ]_vars

\* C16 witness: a job that nobody tried to cancel ended failed after its
\* traversal had returned no PageResult.
EmptyResultJobFailed ==
    /\ pc = "job_end"
    /\ outcome = "returned"
    /\ returned = <<>>
    /\ cancel_pc = "idle"
    /\ job_record = FailedRecord("no_content")
    /\ extraction_doc = NoRecord

NoUrlTwiceInLinks ==
    extraction_doc # NoRecord =>
        \A i, j \in 1..Len(extraction_doc.links) :
            extraction_doc.links[i].url = extraction_doc.links[j].url => i = j

\* where the text of page i starts in the content, counted from 0, when
\* consecutive texts are two line breaks apart
RECURSIVE TextOffset(_, _)
TextOffset(result, i) ==
    IF i = 1 THEN 0
    ELSE TextOffset(result, i - 1) + Len(Chars(result[i - 1].text)) + 2

\* C18: the content of a stored result is the texts of the returned pages in
\* page order with exactly one blank line (two line breaks) between
\* consecutive texts and nothing else, and pages_extracted,
\* total_characters and total_links are the number of returned pages, the
\* length of the content and the length of the stored link list.
ContentIsPagesJoinedByBlankLine ==
    extraction_doc # NoRecord =>
        LET n == Len(returned)
            content == extraction_doc.content
        IN /\ Len(content) = TextOffset(returned, n) + Len(Chars(returned[n].text))
           /\ \A i \in 1..n :
                  SubSeq(content, TextOffset(returned, i) + 1,
                         TextOffset(returned, i) + Len(Chars(returned[i].text)))
                      = Chars(returned[i].text)
           /\ \A i \in 2..n :
                  /\ content[TextOffset(returned, i) - 1] = Newline
                  /\ content[TextOffset(returned, i)] = Newline
           /\ extraction_doc.pages_extracted = n
           /\ extraction_doc.total_characters = Len(content)
           /\ extraction_doc.total_links = Len(extraction_doc.links)

\* C18 witness: a result of two pages with different texts, one of them
\* longer than 2000 characters, and with links, is stored.
TwoPagesStored ==
    /\ extraction_doc # NoRecord
    /\ Len(returned) = 2
    /\ returned[1].text.long
    /\ returned[1].text # returned[2].text
    /\ extraction_doc.total_links >= 2
    /\ job_record.status = "completed"

\* C19: a completed job on the site https://a.test (3 pages at ?page=1..3,
\* start URL /list, one anchor "More" to /more on every page) has exactly 3
\* PageResults, numbered 1 to 3, and its link list has exactly one entry
\* with url https://a.test/more and text More.
SiteJobReturnsThreePages ==
    (pc = "job_end" /\ job_record.status = "completed") =>
        /\ Len(returned) = 3
        /\ \A i \in 1..Len(returned) : returned[i].page_number = i
        /\ extraction_doc.pages_extracted = 3
        /\ Cardinality({i \in 1..Len(extraction_doc.links) :
                           extraction_doc.links[i] = MoreLink}) = 1

\* C20: a call of extract_text_with_inline_links with a selector that
\* soup.select rejects never raises: whatever include_links is, it returns
\* the text and the links the same call returns without a selector, that is
\* those of the whole document.
InvalidSelectorNeverFails ==
    (extract_call # NoCall /\ extract_result # NoResult
     /\ extract_call.selector = "invalid") =>
        /\ extract_result # ExtractRaised
        /\ extract_result = extract_text_with_inline_links(
               extract_call.html, "None",
               extract_call.include_links, extract_call.base_url)

\* the anchors the text is taken from whose href is a fragment or a
\* javascript:, mailto: or tel: pseudo-URL
IsPseudoTarget(href) ==
    href \in {"#top", "javascript:void(0)", "mailto:a@a.test", "tel:+1"}

\* the lines the claim describes for the anchors of soup: the visible text
\* alone for a fragment or pseudo-URL target, "text -- absolute URL" otherwise
RECURSIVE ClaimedLines(_, _)
ClaimedLines(soup, base_url) ==
    IF soup = <<>> THEN <<>>
    ELSE LET a == Head(soup)
             line == IF IsPseudoTarget(a.href)
                     THEN [text |-> a.text, url |-> ""]
                     ELSE [text |-> a.text, url |-> urljoin(base_url, a.href)]
             rest == ClaimedLines(Tail(soup), base_url)
         IN  IF line.text = "" /\ line.url = "" THEN rest ELSE <<line>> \o rest

\* C21: when links are rendered inline (include_links and a base_url), an
\* anchor whose href is a fragment, javascript:, mailto: or tel: contributes
\* only its visible text (or nothing) to the extracted text and no URL; every
\* other anchor is rendered as its text followed by its absolute URL.
PseudoTargetsKeepTextOnly ==
    (extract_call # NoCall /\ extract_result # NoResult
     /\ extract_result # ExtractRaised
     /\ extract_call.include_links /\ extract_call.base_url # NoBase) =>
        extract_result.text =
            ClaimedLines(TargetSoup(extract_call.html, extract_call.selector),
                         extract_call.base_url)

\* C22: a failure of the job progress sink never aborts a traversal and
\* never changes its result list.  A cancellation query that raises, or that
\* finds no record, counts as not cancelled: the loop-top step does not stop
\* for cancellation, raises nothing and leaves the list alone.  A progress
\* update whose get raises or finds no record, or whose setex raises, is
\* ignored: the record and the list stay as they are and the traversal goes
\* on to its next position.
SinkFailureNeverAborts ==
    [][ /\ (LoopTopStep /\ (~sink_up \/ job_record = NoRecord)) =>
               /\ reason' # "cancelled"
               /\ outcome' # "raised"
               /\ all_text_parts' = all_text_parts
        /\ (pc = "progress_read" /\ pc' # pc
                /\ (~sink_up \/ job_record = NoRecord)) =>
               /\ pc' = "progress_write"
               /\ data' = NoRecord
               /\ outcome' = "running"
               /\ all_text_parts' = all_text_parts
        /\ (pc = "progress_write" /\ pc' # pc
                /\ (~sink_up \/ data = NoRecord)) =>
               /\ pc' = (IF mode = "url" THEN "url_enqueue" ELSE "js_locate")
               /\ job_record' = job_record
               /\ outcome' = "running"
               /\ all_text_parts' = all_text_parts ]_vars

\* C22 witness: a traversal returned two pages while Redis is down and the
\* record still says that no page was extracted: both progress updates
\* failed and the traversal went on.
ReturnedDespiteFailedUpdates ==
    /\ outcome = "returned"
    /\ Len(returned) = 2
    /\ ~sink_up
    /\ job_record # NoRecord
    /\ job_record.status = "processing"
    /\ job_record.pages_extracted = 0

\* cancel_extraction answers a DELETE request
CancelReadStep == cancel_pc = "idle" /\ cancel_pc' # "idle"

\* C23: DELETE /extract/{job_id} is accepted exactly when the record of the
\* job exists with status processing or pending.  For a job without a record
\* it answers 404, for a completed, failed or cancelled job 400, and a
\* request answered 404 or 400 leaves the status record and the cancellation
\* flag as they were, until its response is sent.
CancelOnlyWhileProcessing ==
    [][ /\ CancelReadStep =>
               /\ (cancel_pc' = "write") <=>
                      (job_record # NoRecord
                       /\ job_record.status \in {"processing", "pending"})
               /\ job_record = NoRecord => cancel_pc' = "not_found"
               /\ (job_record # NoRecord
                   /\ job_record.status \in {"completed", "failed", "cancelled"})
                      => cancel_pc' = "rejected"
               /\ cancel_pc' \in {"rejected", "not_found"} =>
                      /\ job_record' = job_record
                      /\ cancellation_flags' = cancellation_flags
        /\ (cancel_pc \in {"rejected", "not_found"} /\ cancel_pc' # cancel_pc) =>
               /\ cancel_pc' = "idle"
               /\ job_record' = job_record
               /\ cancellation_flags' = cancellation_flags ]_vars

\* C23 witness: a second DELETE, sent while the traversal is still running
\* and the first one has marked the job cancelled, has been refused.
SecondCancelRefused ==
    /\ cancel_pc = "rejected"
    /\ outcome = "running"
    /\ job_record # NoRecord
    /\ job_record.status = "cancelled"
    /\ cancellation_flags

\* get_result answers a GET request
GetResultStep == get_response = NoResponse /\ get_response' # NoResponse

\* C24: GET /extract/result/{job_id} answers 200 with the stored document
\* only when the record of the job has status completed; for a record with
\* any other status it answers 400, for a job without a record 404; and
\* answering never changes the status record or the stored document.
ResultOnlyWhenCompleted ==
    [][ /\ GetResultStep =>
               /\ get_response'.code = 200 <=>
                      (job_record # NoRecord /\ job_record.status = "completed")
               /\ get_response'.code = 200 =>
                      /\ extraction_doc # NoRecord
                      /\ get_response'.body = extraction_doc
               /\ get_response'.code = 404 <=> job_record = NoRecord
               /\ get_response'.code = 400 <=>
                      (job_record # NoRecord /\ job_record.status # "completed")
        /\ (get_response' # get_response) =>
               /\ job_record' = job_record
               /\ extraction_doc' = extraction_doc ]_vars

\* C24 witness: the stored document of a completed job of two pages is
\* being served.
StoredResultServed ==
    /\ get_response # NoResponse
    /\ get_response.code = 200
    /\ get_response.body = extraction_doc
    /\ extraction_doc.pages_extracted = 2
    /\ job_record # NoRecord
    /\ job_record.status = "completed"

\* C25: every traversal terminates, also on a site whose next control never
\* disappears, whose activations always succeed and whose content never
\* changes, and on a site whose pages keep linking to further pagination
\* URLs: the URL controller dequeues at most max_pages (has_pagination) or
\* 1000 URLs, the control-driven controller starts at most that many
\* iterations, and the traversal eventually returns or raises.
TraversalTerminates ==
    /\ [](/\ iteration <= MaxPagesLimit(session.has_pagination, session.max_pages)
          /\ page_count <= MaxPagesLimit(session.has_pagination, session.max_pages))
    /\ <>(outcome # "running")

\* C25 witness: the cap has ended a URL traversal that had dequeued max_pages
\* URLs and still had URLs in its queue.
CapEndedUrlTraversal ==
    /\ mode = "url"
    /\ outcome = "returned"
    /\ session.has_pagination
    /\ iteration = session.max_pages
    /\ urls_to_visit # <<>>

\* the URL carries a page-number query parameter or a /page-N path segment
PaginationShaped(u) == HasPageParam(u) \/ HasPagePath(u)

\* C26: every URL the URL controller puts into its queue is
\* pagination-shaped: it carries a page-number query parameter or a /page-N
\* style path segment; a same-host link without either is never enqueued,
\* inside a pagination container or outside.
OnlyPaginationShapedEnqueued ==
    \A i \in 1..Len(urls_to_visit) :
        urls_to_visit[i] # StartUrl => PaginationShaped(urls_to_visit[i])

\* the URL controller has loaded a page before in this traversal
FetchedBefore == \E u \in DOMAIN fetched.controller : fetched.controller[u] > 0

\* C27: whenever the URL controller is about to load a page after an
\* earlier load of the same traversal, the politeness delay has run since
\* that earlier load, also when the earlier load failed or its extraction
\* was empty.
DelayBetweenFetches ==
    (mode = "url" /\ pc = "url_load" /\ FetchedBefore) => delayed

\* the locate step of the iteration has run on the snapshot
Located == html \in Snapshots /\ pc # "js_locate"

\* C28: the control chosen for activation follows the order enabled explicit
\* next control, numbered current+1 link, enabled vendor-pattern next
\* control: an enabled explicit next control is chosen whenever there is
\* one, and on a page whose only next control is a vendor-pattern one and
\* which has the numbered current+1 link, the numbered link is chosen.
NumberedBeforeVendorNext ==
    (Located /\ pc = "js_click" /\ html.next = "enabled") =>
        /\ html.next_kind = "explicit" => next_button = "next"
        /\ (html.next_kind = "vendor" /\ html.numbered = "next")
               => next_button = "numbered"

\* C29: when the "X of Y" indicator of the paging container shows
\* current >= total and neither an enabled next control nor a numbered
\* current+1 link is there, the iteration stops the loop and activates
\* nothing; when it shows current < total the loop does not stop as on an
\* explicit last page.
LastPageIndicatorStops ==
    (Located /\ ~html.facet_last /\ ~html.next_wraps) =>
        /\ (html.indicator = "last" /\ html.next # "enabled"
                /\ html.numbered # "next")
               => (outcome = "returned" /\ pc # "js_click")
        /\ html.indicator = "more" => reason # "explicit_last_page"

\* C30: a next control that is reported disabled by its own attribute, its
\* own class or the class of its parent is still activated when "X of Y"
\* shows current < total; when a numbered current+1 link exists that link is
\* activated instead of the disabled control; and the loop stops for the
\* disabled control only when neither holds.
DisabledNextReconsidered ==
    (Located /\ ~html.facet_last /\ ~html.next_wraps
         /\ html.next \in {"disabled_own", "disabled_parent"}
         /\ html.indicator # "last") =>
        /\ html.numbered = "next" =>
               (pc = "js_click" /\ next_button = "numbered")
        /\ (html.indicator = "more" /\ html.numbered # "next") =>
               (pc = "js_click" /\ next_button = "next")
        /\ (html.indicator = "none" /\ html.numbered = "none") =>
               outcome = "returned"

\* C31: in URL traversal every page that loads has its pagination links
\* looked for and the unseen ones enqueued, whether or not a PageResult was
\* appended for it: after a successful load the iteration does not go back
\* to the top of the loop without passing the enqueue step.
EmptyPageStillDiscoversLinks ==
    [][(pc = "url_extract" /\ html \in UrlPages /\ pc' # pc /\ outcome' = "running")
         => pc' \in {"progress_read", "url_enqueue"}]_vars

\* C32: within one job at most one render session is open at any time: the
\* browser that the classifier's load launched is closed before the
\* controller opens its session or makes its first fetch, every load of the
\* URL controller starts with no browser open, and none is left open when
\* the traversal is over.
OneSessionAtATime ==
    /\ open_sessions <= 1
    /\ pc \in {"js_goto", "url_load", "done", "job_end"} => open_sessions = 0
    /\ open_sessions = 1 => mode = "js"

\* the control-driven controller is on its second page, on its own session,
\* after the classifier has loaded the start page on another one
ControllerSessionAfterClassifier ==
    /\ mode = "js"
    /\ fetched.classifier = 1
    /\ fetched.controller[StartUrl] = 1
    /\ open_sessions = 1
    /\ pc = "js_extract"
    /\ page_count = 2

\* C33: once the status record of a job says cancelled it never says
\* processing again: no progress update of the running traversal writes
\* the status it read before the cancel request was accepted.
CancelledNeverBackToProcessing ==
    [][(job_record # NoRecord /\ job_record.status = "cancelled")
         => (job_record' # NoRecord /\ job_record'.status # "processing")]_vars

\* the DELETE request of this job has been accepted
CancelAccepted == cancel_pc \in {"write", "accepted"}

\* C34: a job whose cancel request was accepted never reaches the status
\* completed and never has a result document stored, whatever the traversal
\* returns and whenever during the traversal the request arrived.
AcceptedCancelNeverCompletes ==
    CancelAccepted =>
        /\ extraction_doc = NoRecord
        /\ job_record # NoRecord /\ job_record.status # "completed"

\* the cancel request was accepted after the last cancellation check: the
\* traversal returned its pages as if nothing had happened, and the job
\* ended cancelled with nothing stored
CancelledAfterFullTraversal ==
    /\ CancelAccepted
    /\ pc = "job_end"
    /\ reason = "queue_empty"
    /\ Len(returned) = 2
    /\ job_record = CancelledRecord
    /\ extraction_doc = NoRecord

\* C35: whenever the status record says completed, the result document of
\* the job is already stored, its pages_extracted is the number of
\* PageResults the traversal returned, and that number is at least 1.
CompletedMeansStored ==
    (job_record # NoRecord /\ job_record.status = "completed") =>
        /\ extraction_doc # NoRecord
        /\ outcome = "returned"
        /\ extraction_doc.pages_extracted = Len(returned)
        /\ job_record.pages_extracted = Len(returned)
        /\ Len(returned) >= 1

\* a job of two pages has completed
CompletedWithTwoPages ==
    /\ pc = "job_end"
    /\ job_record # NoRecord /\ job_record.status = "completed"
    /\ job_record.pages_extracted = 2
    /\ extraction_doc # NoRecord /\ extraction_doc.pages_extracted = 2
    /\ Len(returned) = 2

\* the page of this iteration was appended and brought the page count to the
\* cap that the request carries
CapPageExtracted ==
    /\ mode = "js"
    /\ session.has_pagination
    /\ page_count = session.max_pages
    /\ all_text_parts # <<>>
    /\ all_text_parts[Len(all_text_parts)].page_number = page_count

\* C36: in control-driven traversal with has_pagination, once the page that
\* brings the page count to max_pages has been extracted, no next control is
\* activated any more before the controller returns.
NoActivationAfterCap ==
    [][CapPageExtracted => ~(pc = "js_click" /\ pc' = "js_settle" /\ clicked')]_vars

\* https://a.test/list?page=3 has been found on a page that loaded
ThirdPageDiscovered == SitePageUrl(3) \in visited_urls \cup Range(urls_to_visit)

\* C37: in URL traversal with has_pagination and max_pages = N only the
\* appended PageResults count against the cap: on the site whose ?page=2
\* does not load, once page 1 and the link to page 3 have been found, a
\* traversal with N <= 2 returns exactly N PageResults.
CapCountsAppendedPagesOnly ==
    (pc \in {"done", "job_end"} /\ outcome = "returned" /\ ThirdPageDiscovered
         /\ session.max_pages <= 2)
        => Len(returned) = session.max_pages

\* C38: every progress update written to the status record of the job
\* reports the number of PageResults appended so far in the traversal.
ProgressReportsAppendedPages ==
    [][(pc = "progress_write" /\ pc' # pc)
         => (job_record' # NoRecord
             /\ job_record'.pages_extracted = Len(all_text_parts))]_vars

\* C39: URL traversal is deterministic: the links found on one page are
\* enqueued in one fixed order, so that two runs over the same pages dequeue
\* the same URLs in the same order.  For the page of this state, the list
\* that the run got from find_pagination_links is the only one that a run
\* on this page can get.
DiscoveryOrderFixed ==
    (pc = "url_loop" /\ html \in DiscoverPages) =>
        \A links \in find_pagination_links(html.anchors) :
            /\ pagination_links = links
            /\ urls_to_visit = EnqueueLinks(<<>>, visited_urls,
                                            ValidPaginationLinks(links, url))

\* C40: in every state of URL traversal the queue holds no URL twice and no
\* URL of the visited set, so the URL at its head has never been visited and
\* the `continue` for an already visited URL is never taken.
QueueHoldsUnseenUrlsOnce ==
    mode \in {"unknown", "url"} =>
        /\ NoDup(urls_to_visit)
        /\ Range(urls_to_visit) \cap visited_urls = {}
        /\ (pc = "url_loop" /\ page_count < iteration) => outcome # "running"

\* two pages have been visited, the second one showed a link back to a
\* visited URL and a link to a new one, and two URLs wait in the queue
QueueGrewPastVisitedLink ==
    /\ mode = "url"
    /\ pc = "url_loop"
    /\ Cardinality(visited_urls) = 2
    /\ Len(urls_to_visit) = 2
    /\ Len(pagination_links) = 2
    /\ pagination_links[1] \in visited_urls
    /\ pagination_links[2] = urls_to_visit[2]

====
